---------------------------- MODULE Spec2Model ----------------------------
(***************************************************************************)
(* A model of opendap_protocol/protocol.py: the DAP object tree, the       *)
(* constraint matcher, the slice parser, the XDR encoder and the lazy      *)
(* DDS / DAS / DODS producers (Python generators, advanced one yield at a  *)
(* time).                                                                  *)
(*                                                                         *)
(* Text is a sequence of one-character strings, bytes are a sequence of    *)
(* integers 0..255.  A raised Python exception is the record               *)
(* [err |-> <exception name>].                                             *)
(***************************************************************************)
EXTENDS Integers, Sequences, FiniteSets, TLC

VARIABLES
    children,     \* node -> sequence of nodes            (DAPObject.children)
    parent,       \* node -> node or None                 (DAPObject.parent)
    data,         \* node -> typed buffer or NoData       (DAPObject.data)
    constraint,   \* the constraint string of the request
    streams,      \* stream id -> generator object (frames, chunks produced)
    call,         \* arguments of a direct call of a module-level function
    ret,          \* what that call returned, once it has run
    Config        \* the process-wide configuration        (class Config)

vars == <<children, parent, data, constraint, streams, call, ret, Config>>

(***************************************************************************)
(* Bounds of the model.                                                    *)
(***************************************************************************)
MaxExprLen == 4     \* longest constraint drawn for meets_constraint
MaxPathLen == 2     \* longest data path drawn for meets_constraint
MaxGroups == 3      \* most bracket groups drawn for parse_slice_constraint
MaxRank == 2        \* highest rank of a buffer drawn for dods_encode
MaxDim == 2         \* longest axis of a buffer drawn for dods_encode
MaxInst == 2        \* most SequenceInstances appended to a Sequence

(***************************************************************************)
(* Strings.                                                                *)
(***************************************************************************)
Digits == <<"0", "1", "2", "3", "4", "5", "6", "7", "8", "9">>

IsDigit(c) == \E i \in 1..10 : Digits[i] = c

DigitVal(c) == (CHOOSE i \in 1..10 : Digits[i] = c) - 1

\* [A-Za-z_]: the characters of \w that are not digits
WordLetters ==
    {"a", "b", "c", "d", "e", "f", "g", "h", "i", "j", "k", "l", "m", "n",
     "o", "p", "q", "r", "s", "t", "u", "v", "w", "x", "y", "z", "A", "B",
     "C", "D", "E", "F", "G", "H", "I", "J", "K", "L", "M", "N", "O", "P",
     "Q", "R", "S", "T", "U", "V", "W", "X", "Y", "Z", "_"}

Sub(s, i, j) == IF j < i THEN <<>> ELSE SubSeq(s, i, j)

\* str.startswith
StartsWith(s, prefix) ==
    /\ Len(prefix) <= Len(s)
    /\ \A k \in 1..Len(prefix) : s[k] = prefix[k]

\* index of the first occurrence of character c in s at or after i, 0 if none
RECURSIVE FindChar(_, _, _)
FindChar(s, c, i) ==
    IF i > Len(s) THEN 0
    ELSE IF s[i] = c THEN i
    ELSE FindChar(s, c, i + 1)

\* str.split(sep) for a one-character separator: never empty
RECURSIVE Split(_, _)
Split(s, sep) ==
    LET k == FindChar(s, sep, 1)
    IN  IF k = 0 THEN <<s>>
        ELSE <<Sub(s, 1, k - 1)>> \o Split(Sub(s, k + 1, Len(s)), sep)

\* str.replace('][', ','): non-overlapping occurrences, left to right
RECURSIVE ReplaceBrackets(_)
ReplaceBrackets(s) ==
    IF Len(s) = 0 THEN <<>>
    ELSE IF Len(s) >= 2 /\ s[1] = "]" /\ s[2] = "["
         THEN <<",">> \o ReplaceBrackets(Sub(s, 3, Len(s)))
         ELSE <<s[1]>> \o ReplaceBrackets(Tail(s))

\* '.'.join([a, b])
JoinDot(a, b) == a \o <<".">> \o b

RECURSIVE Concat(_)
Concat(ss) == IF Len(ss) = 0 THEN <<>> ELSE Head(ss) \o Concat(Tail(ss))

\* the decimal digits of a natural number ('{}'.format(n))
RECURSIVE IntToStr(_)
IntToStr(n) ==
    IF n < 10 THEN <<Digits[n + 1]>>
    ELSE IntToStr(n \div 10) \o <<Digits[(n % 10) + 1]>>

\* int(token) for a token of decimal digits
RECURSIVE DigitsToInt(_)
DigitsToInt(t) ==
    IF Len(t) = 0 THEN 0
    ELSE 10 * DigitsToInt(Sub(t, 1, Len(t) - 1)) + DigitVal(t[Len(t)])

(***************************************************************************)
(* meets_constraint                                                        *)
(***************************************************************************)
RECURSIVE AnyStartsWith(_, _)
AnyStartsWith(constrs, data_path) ==
    IF Len(constrs) = 0 THEN FALSE
    ELSE IF StartsWith(Head(constrs), data_path) THEN TRUE
    ELSE AnyStartsWith(Tail(constrs), data_path)

meets_constraint_swapped(constraint_expr, data_path) ==
    IF constraint_expr = <<>> THEN TRUE
    ELSE \E i \in 1..Len(Split(constraint_expr, ",")) :
            StartsWith(data_path, Split(constraint_expr, ",")[i])

meets_constraint(constraint_expr, data_path) ==
    IF constraint_expr = <<>> THEN TRUE
    ELSE AnyStartsWith(Split(constraint_expr, ","), data_path)

(***************************************************************************)
(* parse_slice, parse_slice_constraint                                     *)
(*                                                                         *)
(* Selectors: [k |-> "int", n |-> n], [k |-> "all"] (Ellipsis),            *)
(* [k |-> "slice", a |-> start, b |-> stop] (stop exclusive),              *)
(* [k |-> "slice3", ...] and [k |-> "none"] (Python None).                 *)
(***************************************************************************)
Ellipsis == [k |-> "all"]
PyNone == [k |-> "none"]
IntSel(n) == [k |-> "int", n |-> n]
SliceSel(a, b) == [k |-> "slice", a |-> a, b |-> b]
\* a raised exception, where a selector or a buffer is expected
SelErr(e) == [k |-> "err", e |-> e]
Raise(e) == [err |-> e]
IsErr(b) == "err" \in DOMAIN b
IsParseErr(sels) == Len(sels) >= 1 /\ sels[1].k = "err"

\* int(s) succeeds: the tokens drawn here hold no sign, blank or underscore
IsInt(t) == Len(t) > 0 /\ \A i \in 1..Len(t) : IsDigit(t[i])

parse_slice_exclusive(token) ==
    IF IsInt(token) THEN IntSel(DigitsToInt(token))
    ELSE IF token = <<":">> THEN Ellipsis
    ELSE IF FindChar(token, ":", 1) # 0
    THEN LET rng == Split(token, ":")
         IN  IF \E i \in 1..Len(rng) : ~IsInt(rng[i]) THEN SelErr("ValueError")
             ELSE IF Len(rng) = 2
             THEN SliceSel(DigitsToInt(rng[1]), DigitsToInt(rng[2]))
             ELSE SelErr("TypeError")
    ELSE PyNone

parse_slice(token) ==
    IF IsInt(token) THEN IntSel(DigitsToInt(token))
    ELSE IF token = <<":">> THEN Ellipsis
    ELSE IF FindChar(token, ":", 1) # 0
    THEN LET rng == Split(token, ":")
         IN  IF \E i \in 1..Len(rng) : ~IsInt(rng[i]) THEN SelErr("ValueError")
             ELSE IF Len(rng) = 2
             THEN SliceSel(DigitsToInt(rng[1]), DigitsToInt(rng[2]) + 1)
             ELSE IF Len(rng) = 3
             THEN [k |-> "slice3", a |-> DigitsToInt(rng[1]),
                   b |-> DigitsToInt(rng[2]) + 1, c |-> DigitsToInt(rng[3])]
             ELSE SelErr("TypeError")
    ELSE PyNone

\* a character of the class [\d,\W]
InSliceClass(c) == c \notin WordLetters

\* SLICE_CONSTRAINT_RE = \[([\d,\W]+)\]$ : where the leftmost match starts,
\* 0 if the expression does not match anywhere.  The match ends at the end
\* of the string, so re.split gives 3 parts exactly when there is a match.
SliceMatchStart(s) ==
    LET starts == {i \in 1..Len(s) :
                      /\ s[i] = "["
                      /\ Len(s) >= i + 2
                      /\ s[Len(s)] = "]"
                      /\ \A j \in (i + 1)..(Len(s) - 1) : InSliceClass(s[j])}
    IN  IF starts = {} THEN 0
        ELSE CHOOSE i \in starts : \A j \in starts : i <= j

\* the first of the selectors raised, or the tuple of selectors
ParseAll(tokens) ==
    LET sels == [i \in 1..Len(tokens) |-> parse_slice(tokens[i])]
        bad == {i \in 1..Len(tokens) : sels[i].k = "err"}
    IN  IF bad = {} THEN sels
        ELSE <<sels[CHOOSE i \in bad : \A j \in bad : i <= j]>>

parse_slice_constraint(c) ==
    LET m == SliceMatchStart(c)
    IN  IF m # 0
        THEN LET slice_str == ReplaceBrackets(Sub(c, m + 1, Len(c) - 1))
             IN  ParseAll(Split(slice_str, ","))
        ELSE <<Ellipsis>>

(***************************************************************************)
(* Typed buffers (numpy.ndarray, numpy scalars, dask.array.Array).         *)
(*                                                                         *)
(* [py |-> v] is a plain Python number (it has no shape attribute).        *)
(* [shape, flat, lazy, chunks] is an array: flat holds the elements in C   *)
(* order, lazy tells a dask array from a numpy one, chunks holds, for a    *)
(* dask array, the chunk sizes along each axis.  A numpy scalar, the       *)
(* result of indexing every axis of a numpy array, is the array of shape   *)
(* <<>>: both have the shape attribute ().                                 *)
(***************************************************************************)
NoData == [nodata |-> TRUE]

HasShape(b) == "shape" \in DOMAIN b

RECURSIVE Prod(_)
Prod(shape) == IF Len(shape) = 0 THEN 1 ELSE Head(shape) * Prod(Tail(shape))

RECURSIVE SumSeq(_)
SumSeq(s) == IF Len(s) = 0 THEN 0 ELSE Head(s) + SumSeq(Tail(s))

Min(a, b) == IF a < b THEN a ELSE b
Max(a, b) == IF a > b THEN a ELSE b

\* the sequence lo, lo + step, ... below hi
RECURSIVE Range(_, _, _)
Range(lo, hi, step) ==
    IF lo >= hi THEN <<>> ELSE <<lo>> \o Range(lo + step, hi, step)

\* the sizes of the chunks of an axis that a slice [lo, hi) keeps; a dask
\* array has at least one chunk on every axis, of size 0 on an empty one
RECURSIVE CutChunks(_, _, _, _)
CutChunks(sizes, at, lo, hi) ==
    IF Len(sizes) = 0 THEN <<>>
    ELSE LET n == Min(at + Head(sizes), hi) - Max(at, lo)
             rest == CutChunks(Tail(sizes), at + Head(sizes), lo, hi)
         IN  IF n > 0 THEN <<n>> \o rest ELSE rest

SliceChunks(sizes, lo, hi) ==
    LET cut == CutChunks(sizes, 0, lo, hi)
    IN  IF cut = <<>> THEN <<0>> ELSE cut

\* One entry per axis of the result or dropped axis of the source:
\* the source indices taken, the source stride, whether the axis is kept,
\* the chunk sizes of the result axis.
FullAxis(b, ax) ==
    [idx |-> Range(0, b.shape[ax], 1), src |-> ax, keep |-> TRUE,
     chunks |-> IF b.lazy THEN b.chunks[ax] ELSE <<>>]

AxisOf(b, sel, ax) ==
    CASE sel.k = "int" ->
            [idx |-> <<sel.n>>, src |-> ax, keep |-> FALSE, chunks |-> <<>>]
      [] sel.k = "slice" ->
            LET hi == Min(sel.b, b.shape[ax])
            IN  [idx |-> Range(sel.a, hi, 1), src |-> ax, keep |-> TRUE,
                 chunks |-> IF b.lazy
                            THEN SliceChunks(b.chunks[ax], sel.a, hi)
                            ELSE <<>>]
      [] sel.k = "slice3" ->
            LET hi == Min(sel.b, b.shape[ax])
                ix == Range(sel.a, hi, sel.c)
            IN  [idx |-> ix, src |-> ax, keep |-> TRUE,
                 chunks |-> IF b.lazy THEN <<Len(ix)>> ELSE <<>>]
      [] OTHER -> FullAxis(b, ax)

NewAxis == [idx |-> <<0>>, src |-> 0, keep |-> TRUE, chunks |-> <<1>>]

IsConsuming(sel) == sel.k \in {"int", "slice", "slice3"}

NumConsuming(sels) == Cardinality({i \in 1..Len(sels) : IsConsuming(sels[i])})

NumEllipsis(sels) == Cardinality({i \in 1..Len(sels) : sels[i].k = "all"})

\* the selectors with the Ellipsis (or, without one, the end of the tuple)
\* expanded to full slices, one selector per source axis plus the None's
ExpandSels(sels, rank) ==
    LET fill == rank - NumConsuming(sels)
        fulls == [i \in 1..fill |-> [k |-> "full"]]
        e == IF NumEllipsis(sels) = 0 THEN 0
             ELSE CHOOSE i \in 1..Len(sels) : sels[i].k = "all"
    IN  IF e = 0 THEN sels \o fulls
        ELSE Sub(sels, 1, e - 1) \o fulls \o Sub(sels, e + 1, Len(sels))

\* the source axis each expanded selector applies to (0 for a None)
RECURSIVE AxesOf(_, _)
AxesOf(xs, ax) ==
    IF Len(xs) = 0 THEN <<>>
    ELSE IF Head(xs).k = "none" THEN <<0>> \o AxesOf(Tail(xs), ax)
    ELSE <<ax>> \o AxesOf(Tail(xs), ax + 1)

Stride(shape, ax) == IF ax = 0 THEN 0 ELSE Prod(Sub(shape, ax + 1, Len(shape)))

\* the flat source offsets of the selected elements, in C order
RECURSIVE Gather(_, _)
Gather(axes, shape) ==
    IF Len(axes) = 0 THEN <<0>>
    ELSE LET rest == Gather(Tail(axes), shape)
             h == Head(axes)
         IN  Concat([i \in 1..Len(h.idx) |->
                        [j \in 1..Len(rest) |->
                            h.idx[i] * Stride(shape, h.src) + rest[j]]])

KeptAxes(axes) == SelectSeq(axes, LAMBDA a : a.keep)

\* data[sels] for a tuple of selectors (basic indexing)
Index(b, sels) ==
    IF ~HasShape(b) THEN Raise("TypeError")
    ELSE IF NumEllipsis(sels) > 1 THEN Raise("IndexError")
    ELSE IF NumConsuming(sels) > Len(b.shape) THEN Raise("IndexError")
    ELSE LET xs == ExpandSels(sels, Len(b.shape))
             ax == AxesOf(xs, 1)
         IN  IF \E i \in 1..Len(xs) :
                    xs[i].k = "int" /\ xs[i].n >= b.shape[ax[i]]
             THEN Raise("IndexError")
             ELSE IF \E i \in 1..Len(xs) : xs[i].k = "slice3" /\ xs[i].c = 0
             THEN Raise("ValueError")
             ELSE LET axes == [i \in 1..Len(xs) |->
                                  IF xs[i].k = "none" THEN NewAxis
                                  ELSE AxisOf(b, xs[i], ax[i])]
                      kept == KeptAxes(axes)
                      offs == Gather(axes, b.shape)
                  IN  [shape |-> [i \in 1..Len(kept) |-> Len(kept[i].idx)],
                       flat |-> [j \in 1..Len(offs) |-> b.flat[offs[j] + 1]],
                       lazy |-> b.lazy,
                       chunks |-> IF b.lazy
                                  THEN [i \in 1..Len(kept) |-> kept[i].chunks]
                                  ELSE <<>>]

(***************************************************************************)
(* Atomic types: the DDS label is the class name, str the numpy type the   *)
(* elements are cast to.                                                   *)
(***************************************************************************)
DtypeStr(dtype) ==
    CASE dtype = "Byte" -> "B"
      [] dtype \in {"Int16", "Int32"} -> ">i4"
      [] dtype \in {"UInt16", "UInt32"} -> ">u4"
      [] dtype = "Float32" -> ">f4"
      [] dtype = "Float64" -> ">f8"
      [] OTHER -> "S"

Pow2(n) == 2 ^ n

\* four bytes, most significant first, of v modulo 2^32
BE32(v) ==
    LET w == IF v >= 0 THEN v ELSE (v + 2147483647) + 1
        top == IF v >= 0 THEN 0 ELSE 128
    IN  <<top + (w \div 16777216), (w \div 65536) % 256, (w \div 256) % 256,
          w % 256>>

LE32(v) ==
    <<BE32(v)[4], BE32(v)[3], BE32(v)[2], BE32(v)[1]>>

\* floor(log2(m)) for m >= 1
RECURSIVE Log2(_)
Log2(m) == IF m < 2 THEN 0 ELSE 1 + Log2(m \div 2)

Abs(v) == IF v < 0 THEN 0 - v ELSE v

\* IEEE 754 single precision of an integer of magnitude below 2^24
F32(v) ==
    IF v = 0 THEN <<0, 0, 0, 0>>
    ELSE LET m == Abs(v)
             e == Log2(m)
             bits == (e + 127) * Pow2(23) + (m - Pow2(e)) * Pow2(23 - e)
             b == BE32(bits)
         IN  <<b[1] + (IF v < 0 THEN 128 ELSE 0), b[2], b[3], b[4]>>

\* IEEE 754 double precision of an integer of magnitude below 2^21
F64(v) ==
    IF v = 0 THEN <<0, 0, 0, 0, 0, 0, 0, 0>>
    ELSE LET m == Abs(v)
             e == Log2(m)
             hi == (e + 1023) * Pow2(20) + (m - Pow2(e)) * Pow2(20 - e)
             b == BE32(hi)
         IN  <<b[1] + (IF v < 0 THEN 128 ELSE 0), b[2], b[3], b[4], 0, 0, 0, 0>>

\* numpy.asarray(v).astype(str).tobytes() for one element
ElemBytes(v, str) ==
    CASE str = "B" -> <<v % 256>>
      [] str \in {">i4", ">u4"} -> BE32(v)
      [] str = ">f4" -> F32(v)
      [] str = ">f8" -> F64(v)

\* data.astype(str).tobytes(): the elements in C order
ToBytes(flat, str) == Concat([i \in 1..Len(flat) |-> ElemBytes(flat[i], str)])

\* length.astype('<i4').byteswap().tobytes() * 2
PackedLengthOnce(length) == BE32(length)

PackedLengthLittle(length) == LE32(length) \o LE32(length)

PackedLength(length) == BE32(length) \o BE32(length)

(***************************************************************************)
(* Characters and str.encode().                                            *)
(***************************************************************************)
Upper ==
    <<"A", "B", "C", "D", "E", "F", "G", "H", "I", "J", "K", "L", "M", "N",
      "O", "P", "Q", "R", "S", "T", "U", "V", "W", "X", "Y", "Z">>

Lower ==
    <<"a", "b", "c", "d", "e", "f", "g", "h", "i", "j", "k", "l", "m", "n",
      "o", "p", "q", "r", "s", "t", "u", "v", "w", "x", "y", "z">>

\* the code point of a character of the texts produced here
Ord(c) ==
    CASE c = "\n" -> 10
      [] c = "\r" -> 13
      [] c = " " -> 32
      [] c = "\"" -> 34
      [] c = "," -> 44
      [] c = "." -> 46
      [] c = ":" -> 58
      [] c = ";" -> 59
      [] c = "=" -> 61
      [] c = "[" -> 91
      [] c = "]" -> 93
      [] c = "_" -> 95
      [] c = "{" -> 123
      [] c = "}" -> 125
      [] IsDigit(c) -> 48 + DigitVal(c)
      [] \E k \in 1..26 : Upper[k] = c -> 64 + (CHOOSE k \in 1..26 : Upper[k] = c)
      [] OTHER -> 96 + (CHOOSE k \in 1..26 : Lower[k] = c)

Encode(text) == [i \in 1..Len(text) |-> Ord(text[i])]

(***************************************************************************)
(* Generators.  A generator object is a stack of frames: the frame on top  *)
(* runs, the frames below it wait in `for stmt in ...: yield stmt` (or     *)
(* `yield from`) for what it yields.  A step of a frame is the code from   *)
(* one point of the frame to its next yield, call or return; it gives the  *)
(* new stack, the new parent links, at most one yielded chunk, the place   *)
(* that yielded it (tag) and the exception raised, if any.                 *)
(***************************************************************************)
None == <<"None", 0>>
NoSlicing == [k |-> "unset"]
NoTag == [node |-> None, role |-> "", part |-> 0]
Tag(n, role, part) == [node |-> n, role |-> role, part |-> part]

Frame(fn, n, c) ==
    [fn |-> fn, node |-> n, c |-> c, pc |-> "start", i |-> 1,
     slicing |-> NoSlicing, slices |-> <<>>, orig |-> None,
     buf |-> NoData, dtype |-> "", part |-> 0]

EncodeFrame(n, part, buf, dtype) ==
    [Frame("dods_encode", n, <<>>) EXCEPT
        !.buf = buf, !.dtype = dtype, !.part = part]

Top(stack) == stack[Len(stack)]
Pop(stack) == Sub(stack, 1, Len(stack) - 1)
SetTop(stack, fr) == [stack EXCEPT ![Len(stack)] = fr]

Return(stack, par) ==
    [stack |-> Pop(stack), par |-> par, y |-> <<>>, tag |-> NoTag, err |-> ""]
Goto(stack, par, fr) ==
    [stack |-> SetTop(stack, fr), par |-> par, y |-> <<>>, tag |-> NoTag,
     err |-> ""]
Call(stack, par, fr, callee) ==
    [stack |-> Append(SetTop(stack, fr), callee), par |-> par, y |-> <<>>,
     tag |-> NoTag, err |-> ""]
Yield(stack, par, fr, chunk, tag) ==
    [stack |-> SetTop(stack, fr), par |-> par, y |-> <<chunk>>, tag |-> tag,
     err |-> ""]
Throw(stack, par, e) ==
    [stack |-> stack, par |-> par, y |-> <<>>, tag |-> NoTag, err |-> e]

(***************************************************************************)
(* The objects of the tree.  A node is a pair <<tag, k>>; its class, name  *)
(* and the other attributes set by its constructor never change.           *)
(***************************************************************************)
\* the text of a word of the vocabulary
Txt(s) ==
    CASE s = "Dataset" -> <<"D", "a", "t", "a", "s", "e", "t">>
      [] s = "Structure" -> <<"S", "t", "r", "u", "c", "t", "u", "r", "e">>
      [] s = "Sequence" -> <<"S", "e", "q", "u", "e", "n", "c", "e">>
      [] s = "Grid" -> <<"G", "r", "i", "d">>
      [] s = "SequenceSchema" -> <<"S", "e", "q", "u", "e", "n", "c", "e", "S", "c", "h", "e", "m", "a">>
      [] s = "SequenceInstance" -> <<"S", "e", "q", "u", "e", "n", "c", "e", "I", "n", "s", "t", "a", "n", "c", "e">>
      [] s = "Attributes" -> <<"A", "t", "t", "r", "i", "b", "u", "t", "e", "s">>
      [] s = "Byte" -> <<"B", "y", "t", "e">>
      [] s = "Int16" -> <<"I", "n", "t", "1", "6">>
      [] s = "UInt16" -> <<"U", "I", "n", "t", "1", "6">>
      [] s = "Int32" -> <<"I", "n", "t", "3", "2">>
      [] s = "UInt32" -> <<"U", "I", "n", "t", "3", "2">>
      [] s = "Float32" -> <<"F", "l", "o", "a", "t", "3", "2">>
      [] s = "Float64" -> <<"F", "l", "o", "a", "t", "6", "4">>
      [] s = "String" -> <<"S", "t", "r", "i", "n", "g">>
      [] s = "test" -> <<"t", "e", "s", "t">>
      [] s = "x" -> <<"x">>
      [] s = "y" -> <<"y">>
      [] s = "z" -> <<"z">>
      [] s = "s" -> <<"s">>
      [] s = "a" -> <<"a">>
      [] s = "q" -> <<"q">>
      [] s = "f" -> <<"f">>
      [] s = "g" -> <<"g">>
      [] s = "units" -> <<"u", "n", "i", "t", "s">>
      [] s = "size" -> <<"s", "i", "z", "e">>
      [] s = "second" -> <<"s", "e", "c", "o", "n", "d">>
      [] s = "4" -> <<"4">>
      [] OTHER -> <<>>

Dset == <<"Dataset", 0>>          \* Dataset(name='test')
Xarr == <<"x", 0>>                \* Array(name='x', data=x, dtype=Int16)
Yarr == <<"y", 0>>                \* Array(name='y', data=y, dtype=Int16)
Zgrid == <<"z", 0>>               \* Grid(name='z', data=z, dtype=Int32,
                                  \*      dimensions=[x_dap, y_dap])
Units == <<"units", 0>>           \* Attribute(name='units', value='second',
                                  \*           dtype=String)
Size == <<"size", 0>>             \* Attribute(name='size', value=4,
                                  \*           dtype=Float64)
Sstruct == <<"s", 0>>             \* Structure(name='s')
Aatom == <<"a", 0>>               \* Int32(name='a', value=7)
Qseq == <<"q", 0>>                \* Sequence(name='q')
Qschema == <<"schema", 0>>        \* SequenceSchema()
Ffield == <<"f", 0>>              \* Float32(name='f'), a field of the schema
Anon == <<"", 0>>                 \* Structure(): the default name ''
Inst(k) == <<"inst", k>>          \* SequenceInstance()
Val(k) == <<"val", k>>            \* Float32(name='f', value=k)

Nodes ==
    {Dset, Xarr, Yarr, Zgrid, Units, Size, Sstruct, Aatom, Qseq, Qschema,
     Ffield} \cup {Inst(k) : k \in 1..MaxInst} \cup {Val(k) : k \in 1..MaxInst}

Kind(n) ==
    CASE n = Dset -> "Dataset"
      [] n \in {Xarr, Yarr} -> "Array"
      [] n = Zgrid -> "Grid"
      [] n \in {Units, Size} -> "Attribute"
      [] n \in {Sstruct, Anon} -> "Structure"
      [] n = Qseq -> "Sequence"
      [] n = Qschema -> "SequenceSchema"
      [] n[1] = "inst" -> "SequenceInstance"
      [] OTHER -> "Atom"

\* self.name
Name(n) ==
    CASE n = Dset -> Txt("test")
      [] n[1] \in {"schema", "inst"} -> <<>>
      [] n[1] = "val" -> Txt("f")
      [] OTHER -> Txt(n[1])

\* self.dtype of an Array, Grid or Attribute; the class of an atom
DtypeOf(n) ==
    CASE n \in {Xarr, Yarr} -> "Int16"
      [] n \in {Zgrid, Aatom} -> "Int32"
      [] n = Units -> "String"
      [] n = Size -> "Float64"
      [] OTHER -> "Float32"

\* self.__class__.__name__
ClassName(n) == IF Kind(n) = "Atom" THEN DtypeOf(n) ELSE Kind(n)

\* self._val of an atom
AtomValue(n) == IF n = Aatom THEN [py |-> 7] ELSE [py |-> n[2]]

\* '{value}'.format(value=self.value) of an Attribute
AttrValue(n) == IF n = Units THEN Txt("second") ELSE Txt("4")

\* self.dimensions: <<>> stands for None
Dimensions(n) == IF n = Zgrid THEN <<Xarr, Yarr>> ELSE <<>>

\* self.schema of a Sequence
SchemaOf(n) == Qschema

INDENT == <<" ", " ", " ", " ">>

RECURSIVE indent(_, _)
indent(n, par) ==
    IF Kind(n) = "Dataset" THEN <<>> ELSE indent(par[n], par) \o INDENT

RECURSIVE data_path(_, _)
data_path(n, par) ==
    IF Kind(n) = "Dataset" THEN <<>>
    ELSE IF Kind(n) = "SequenceInstance" THEN data_path(par[n], par)
    ELSE IF Kind(par[n]) = "Dataset" THEN Name(n)
    ELSE JoinDot(data_path(par[n], par), Name(n))

ddshead(n, par) == indent(n, par) \o Txt(ClassName(n)) \o <<" ", "{", "\n">>

ddstail(n, par) == indent(n, par) \o <<"}", " ">> \o Name(n) \o <<";", "\n">>

dashead(n, par) ==
    indent(n, par)
    \o (IF Kind(n) = "Dataset" THEN Txt("Attributes") ELSE Name(n))
    \o <<" ", "{", "\n">>

dastail(n, par) == indent(n, par) \o <<"}", "\n">>

\* slices[i] if i < len(slices) else ...  (i counted from 1 here)
SelectorAt(slices, i) == IF i <= Len(slices) THEN slices[i] ELSE Ellipsis

\* int(np.prod(buf.shape)) as text
LengthText(buf) == IntToStr(Prod(buf.shape))

(***************************************************************************)
(* dods_encode                                                             *)
(***************************************************************************)
is_scalar_rank0(buf) == ~HasShape(buf) \/ Len(buf.shape) = 0

\* is_scalar: data has no shape attribute
is_scalar(buf) == ~HasShape(buf)

\* np.asarray(data) of a plain number
AsArray(buf) ==
    IF HasShape(buf) THEN buf
    ELSE [shape |-> <<>>, flat |-> <<buf.py>>, lazy |-> FALSE, chunks |-> <<>>]

\* data[x:x + c, ...] of an array of rank >= 1, flattened in C order
Block(buf, x, c) ==
    LET row == Prod(Tail(buf.shape))
    IN  Sub(buf.flat, x * row + 1, Min(x + c, buf.shape[1]) * row)

dods_encode_step(stack, par) ==
    LET fr == Top(stack)
        arr == AsArray(fr.buf)
        t == Tag(fr.node, "elems", fr.part)
    IN  CASE fr.pc = "start" ->
                Yield(stack, par, [fr EXCEPT !.pc = "body", !.i = 0],
                      IF is_scalar(fr.buf) THEN <<>>
                      ELSE PackedLength(Prod(arr.shape)),
                      Tag(fr.node, "length", fr.part))
          [] fr.pc = "body" /\ arr.lazy ->
                IF Len(arr.shape) = 0 THEN Throw(stack, par, "IndexError")
                ELSE IF arr.chunks[1][1] = 0 THEN Throw(stack, par, "ValueError")
                ELSE IF fr.i < arr.shape[1]
                THEN Yield(stack, par,
                           [fr EXCEPT !.i = fr.i + arr.chunks[1][1]],
                           ToBytes(Block(arr, fr.i, arr.chunks[1][1]),
                                   DtypeStr(fr.dtype)), t)
                ELSE Return(stack, par)
          [] fr.pc = "body" /\ ~arr.lazy ->
                Yield(stack, par, [fr EXCEPT !.pc = "end"],
                      ToBytes(arr.flat, DtypeStr(fr.dtype)), t)
          [] OTHER -> Return(stack, par)

(***************************************************************************)
(* The producers of the classes.  `for obj in xs: for stmt in obj.f(c):    *)
(* yield stmt` is the loop below: the frame calls f on the next element    *)
(* and, when that generator is exhausted, goes on behind it.               *)
(***************************************************************************)
Meets_Unfiltered(fr, par) == TRUE

\* meets_constraint(constraint, self.data_path)
Meets(fr, par) == meets_constraint(fr.c, data_path(fr.node, par))

\* the next round of a loop over xs, or `after` when xs is exhausted
ForEach(stack, par, fr, xs, rebind, after) ==
    IF fr.i <= Len(xs)
    THEN Call(stack,
              IF rebind THEN [par EXCEPT ![xs[fr.i]] = fr.node] ELSE par,
              [fr EXCEPT !.i = fr.i + 1],
              Frame(fr.fn, xs[fr.i], fr.c))
    ELSE after

DAPObject_dds(stack, par) ==
    LET fr == Top(stack)
        n == fr.node
    IN  CASE fr.pc = "start" ->
                IF Meets(fr, par)
                THEN Yield(stack, par, [fr EXCEPT !.pc = "children"],
                           ddshead(n, par), Tag(n, "head", 0))
                ELSE Return(stack, par)
          [] fr.pc = "children" ->
                ForEach(stack, par, fr, children[n], TRUE,
                        Yield(stack, par, [fr EXCEPT !.pc = "end"],
                              ddstail(n, par), Tag(n, "tail", 0)))
          [] OTHER -> Return(stack, par)

DAPObject_das(stack, par) ==
    LET fr == Top(stack)
        n == fr.node
    IN  CASE fr.pc = "start" ->
                IF Meets(fr, par)
                THEN Yield(stack, par, [fr EXCEPT !.pc = "children"],
                           dashead(n, par), Tag(n, "head", 0))
                ELSE Return(stack, par)
          [] fr.pc = "children" ->
                ForEach(stack, par, fr, children[n], TRUE,
                        Yield(stack, par, [fr EXCEPT !.pc = "end"],
                              dastail(n, par), Tag(n, "tail", 0)))
          [] OTHER -> Return(stack, par)

DAPObject_dods_NoSeparator(stack, par) ==
    LET fr == Top(stack)
    IN  CASE fr.pc = "start" ->
                IF Meets(fr, par)
                THEN Call(stack, par, [fr EXCEPT !.pc = "dds"],
                          Frame("dds", fr.node, fr.c))
                ELSE Goto(stack, par, [fr EXCEPT !.pc = "dds"])
          [] fr.pc = "dds" ->
                IF Meets(fr, par)
                THEN Call(stack, par, [fr EXCEPT !.pc = "end"],
                          Frame("dods_data", fr.node, fr.c))
                ELSE Return(stack, par)
          [] OTHER -> Return(stack, par)

DAPObject_dods(stack, par) ==
    LET fr == Top(stack)
    IN  CASE fr.pc = "start" ->
                IF Meets(fr, par)
                THEN Call(stack, par, [fr EXCEPT !.pc = "dds"],
                          Frame("dds", fr.node, fr.c))
                ELSE Goto(stack, par, [fr EXCEPT !.pc = "dds"])
          [] fr.pc = "dds" ->
                Yield(stack, par, [fr EXCEPT !.pc = "data"], <<10>>,
                      Tag(fr.node, "newline", 0))
          [] fr.pc = "data" ->
                IF Meets(fr, par)
                THEN Call(stack, par, [fr EXCEPT !.pc = "end"],
                          Frame("dods_data", fr.node, fr.c))
                ELSE Return(stack, par)
          [] OTHER -> Return(stack, par)

DAPObject_dods_data(stack, par) ==
    LET fr == Top(stack)
    IN  CASE fr.pc = "start" ->
                IF Meets(fr, par)
                THEN Goto(stack, par, [fr EXCEPT !.pc = "children"])
                ELSE Return(stack, par)
          [] OTHER ->
                ForEach(stack, par, fr, children[fr.node], FALSE,
                        Return(stack, par))

DAPAtom_das(stack, par) ==
    LET fr == Top(stack)
        n == fr.node
    IN  CASE fr.pc = "start" ->
                IF Meets(fr, par)
                THEN Yield(stack, par, [fr EXCEPT !.pc = "children"],
                           dashead(n, par), Tag(n, "head", 0))
                ELSE Return(stack, par)
          [] fr.pc = "children" ->
                ForEach(stack, par, fr, children[n], FALSE,
                        Yield(stack, par, [fr EXCEPT !.pc = "end"],
                              dastail(n, par), Tag(n, "tail", 0)))
          [] OTHER -> Return(stack, par)

DAPAtom_dds(stack, par) ==
    LET fr == Top(stack)
        n == fr.node
    IN  IF fr.pc = "start" /\ Meets(fr, par)
        THEN Yield(stack, par, [fr EXCEPT !.pc = "end"],
                   indent(n, par) \o Txt(ClassName(n)) \o <<" ">> \o Name(n)
                       \o <<";", "\n">>,
                   Tag(n, "line", 0))
        ELSE Return(stack, par)

DAPAtom_dods_data(stack, par) ==
    LET fr == Top(stack)
    IN  IF fr.pc = "start" /\ Meets(fr, par)
        THEN Call(stack, par, [fr EXCEPT !.pc = "end"],
                  EncodeFrame(fr.node, 0, AtomValue(fr.node), ClassName(fr.node)))
        ELSE Return(stack, par)

\* b'Data:\r\n'
DataMarker == <<68, 97, 116, 97, 58, 13, 10>>

Dataset_dods_data(stack, par) ==
    LET fr == Top(stack)
    IN  CASE fr.pc = "start" ->
                Yield(stack, par, [fr EXCEPT !.pc = "children"], DataMarker,
                      Tag(fr.node, "Data:", 0))
          [] OTHER ->
                ForEach(stack, par, fr, children[fr.node], FALSE,
                        Return(stack, par))

start_of_inst == <<90, 0, 0, 0>>
end_of_seq == <<165, 0, 0, 0>>

Sequence_das(stack, par) ==
    LET fr == Top(stack)
        n == fr.node
    IN  CASE fr.pc = "start" ->
                IF Meets(fr, par)
                THEN Yield(stack, par, [fr EXCEPT !.pc = "children"],
                           dashead(n, par), Tag(n, "head", 0))
                ELSE Return(stack, par)
          [] fr.pc = "children" ->
                ForEach(stack, par, fr, children[SchemaOf(n)], TRUE,
                        Yield(stack, par, [fr EXCEPT !.pc = "end"],
                              dastail(n, par), Tag(n, "tail", 0)))
          [] OTHER -> Return(stack, par)

Sequence_dds(stack, par) ==
    LET fr == Top(stack)
        n == fr.node
    IN  CASE fr.pc = "start" ->
                IF Meets(fr, par)
                THEN Yield(stack, par, [fr EXCEPT !.pc = "children"],
                           ddshead(n, par), Tag(n, "head", 0))
                ELSE Return(stack, par)
          [] fr.pc = "children" ->
                ForEach(stack, par, fr, children[SchemaOf(n)], TRUE,
                        Yield(stack, par, [fr EXCEPT !.pc = "end"],
                              ddstail(n, par), Tag(n, "tail", 0)))
          [] OTHER -> Return(stack, par)

Sequence_dods_data_EndFirst(stack, par) ==
    LET fr == Top(stack)
        n == fr.node
    IN  CASE fr.pc = "start" ->
                IF Meets(fr, par)
                THEN Yield(stack, par, [fr EXCEPT !.pc = "children"],
                           end_of_seq, Tag(n, "end_of_seq", 0))
                ELSE Return(stack, par)
          [] fr.pc = "children" ->
                IF fr.i <= Len(children[n])
                THEN Yield(stack, par, [fr EXCEPT !.pc = "instance"],
                           start_of_inst, Tag(n, "start_of_inst", fr.i))
                ELSE Return(stack, par)
          [] fr.pc = "instance" ->
                ForEach(stack, par, [fr EXCEPT !.pc = "children"],
                        children[n], FALSE, Return(stack, par))
          [] OTHER -> Return(stack, par)

Sequence_dods_data(stack, par) ==
    LET fr == Top(stack)
        n == fr.node
    IN  CASE fr.pc = "start" ->
                IF Meets(fr, par)
                THEN Goto(stack, par, [fr EXCEPT !.pc = "children"])
                ELSE Return(stack, par)
          [] fr.pc = "children" ->
                IF fr.i <= Len(children[n])
                THEN Yield(stack, par, [fr EXCEPT !.pc = "instance"],
                           start_of_inst, Tag(n, "start_of_inst", fr.i))
                ELSE Yield(stack, par, [fr EXCEPT !.pc = "end"],
                           end_of_seq, Tag(n, "end_of_seq", 0))
          [] fr.pc = "instance" ->
                ForEach(stack, par, [fr EXCEPT !.pc = "children"],
                        children[n], FALSE, Return(stack, par))
          [] OTHER -> Return(stack, par)

SequenceInstance_dods_data(stack, par) ==
    ForEach(stack, par, Top(stack), children[Top(stack).node], FALSE,
            Return(stack, par))

\* the selectors a producer slices with, or the exception raised
DAPDataObject_dods_data_SameSelector(stack, par) ==
    LET fr == Top(stack)
        n == fr.node
        dims == Dimensions(n)
    IN  CASE fr.pc = "start" ->
                IF Meets(fr, par)
                THEN LET slices == parse_slice_constraint(fr.c)
                         buf == Index(data[n], slices)
                     IN  IF IsParseErr(slices)
                         THEN Throw(stack, par, slices[1].e)
                         ELSE IF IsErr(buf) THEN Throw(stack, par, buf.err)
                         ELSE Call(stack, par,
                                   [fr EXCEPT !.pc = "dimensions",
                                              !.slices = slices],
                                   EncodeFrame(n, 0, buf, DtypeOf(n)))
                ELSE Return(stack, par)
          [] fr.pc = "dimensions" /\ fr.i <= Len(dims) ->
                LET dim == dims[fr.i]
                    buf == Index(data[dim], <<SelectorAt(fr.slices, 1)>>)
                IN  IF IsErr(buf) THEN Throw(stack, par, buf.err)
                    ELSE Call(stack, par, [fr EXCEPT !.i = fr.i + 1],
                              EncodeFrame(n, fr.i, buf, DtypeOf(dim)))
          [] OTHER -> Return(stack, par)

DAPDataObject_dods_data(stack, par) ==
    LET fr == Top(stack)
        n == fr.node
        dims == Dimensions(n)
    IN  CASE fr.pc = "start" ->
                IF Meets(fr, par)
                THEN LET slices == parse_slice_constraint(fr.c)
                         buf == Index(data[n], slices)
                     IN  IF IsParseErr(slices)
                         THEN Throw(stack, par, slices[1].e)
                         ELSE IF IsErr(buf) THEN Throw(stack, par, buf.err)
                         ELSE Call(stack, par,
                                   [fr EXCEPT !.pc = "dimensions",
                                              !.slices = slices],
                                   EncodeFrame(n, 0, buf, DtypeOf(n)))
                ELSE Return(stack, par)
          [] fr.pc = "dimensions" /\ fr.i <= Len(dims) ->
                LET dim == dims[fr.i]
                    buf == Index(data[dim], <<SelectorAt(fr.slices, fr.i)>>)
                IN  IF IsErr(buf) THEN Throw(stack, par, buf.err)
                    ELSE Call(stack, par, [fr EXCEPT !.i = fr.i + 1],
                              EncodeFrame(n, fr.i, buf, DtypeOf(dim)))
          [] OTHER -> Return(stack, par)

Array_dds(stack, par) ==
    LET fr == Top(stack)
        n == fr.node
    IN  IF fr.pc = "start" /\ Meets(fr, par)
        THEN LET slices == IF fr.slicing.k \in {"unset", "none"}
                           THEN parse_slice_constraint(fr.c)
                           ELSE <<fr.slicing>>
                 buf == Index(data[n], slices)
             IN  IF IsParseErr(slices) THEN Throw(stack, par, slices[1].e)
                 ELSE IF IsErr(buf) THEN Throw(stack, par, buf.err)
                 ELSE Yield(stack, par, [fr EXCEPT !.pc = "end"],
                            indent(n, par) \o Txt(DtypeOf(n)) \o <<" ">>
                                \o Name(n) \o <<"[">> \o Name(n)
                                \o <<" ", "=", " ">> \o LengthText(buf)
                                \o <<"]", ";", "\n">>,
                            Tag(n, IF fr.slicing.k = "unset" THEN "line"
                                   ELSE "map", 0))
        ELSE Return(stack, par)

Grid_dds_NoRestore(stack, par) ==
    LET fr == Top(stack)
        n == fr.node
        dims == Dimensions(n)
    IN  CASE fr.pc = "start" ->
                IF Meets(fr, par)
                THEN LET slices == parse_slice_constraint(fr.c)
                     IN  IF IsParseErr(slices)
                         THEN Throw(stack, par, slices[1].e)
                         ELSE Yield(stack, par,
                                    [fr EXCEPT !.pc = "Array:",
                                               !.slices = slices],
                                    ddshead(n, par), Tag(n, "head", 0))
                ELSE Return(stack, par)
          [] fr.pc = "Array:" ->
                Yield(stack, par, [fr EXCEPT !.pc = "declaration"],
                      indent(n, par) \o <<" ", " ", "A", "r", "r", "a", "y",
                                          ":", "\n">>,
                      Tag(n, "Array:", 0))
          [] fr.pc = "declaration" ->
                Yield(stack, par, [fr EXCEPT !.pc = "lengths", !.i = 1],
                      indent(n, par) \o INDENT \o Txt(DtypeOf(n)) \o <<" ">>
                          \o Name(n),
                      Tag(n, "declaration", 0))
          [] fr.pc = "lengths" ->
                IF fr.i <= Len(dims)
                THEN LET dim == dims[fr.i]
                         buf == Index(data[dim],
                                      <<SelectorAt(fr.slices, fr.i)>>)
                     IN  IF IsErr(buf) THEN Throw(stack, par, buf.err)
                         ELSE Yield(stack, par, [fr EXCEPT !.i = fr.i + 1],
                                    <<"[">> \o Name(dim) \o <<" ", "=", " ">>
                                        \o LengthText(buf) \o <<"]">>,
                                    Tag(n, "extent", fr.i))
                ELSE Yield(stack, par, [fr EXCEPT !.pc = "Maps:"],
                           <<";", "\n">>, Tag(n, "semicolon", 0))
          [] fr.pc = "Maps:" ->
                Yield(stack, par, [fr EXCEPT !.pc = "maps", !.i = 1],
                      indent(n, par) \o <<" ", " ", "M", "a", "p", "s", ":",
                                          "\n">>,
                      Tag(n, "Maps:", 0))
          [] fr.pc = "maps" ->
                IF fr.i <= Len(dims)
                THEN LET dim == dims[fr.i]
                     IN  Call(stack, [par EXCEPT ![dim] = n],
                              [fr EXCEPT !.pc = "restore", !.orig = par[dim]],
                              [Frame("dds", dim, <<>>) EXCEPT
                                  !.slicing = SelectorAt(fr.slices, fr.i)])
                ELSE Yield(stack, par, [fr EXCEPT !.pc = "end"],
                           ddstail(n, par), Tag(n, "tail", 0))
          [] fr.pc = "restore" ->
                Goto(stack, par, [fr EXCEPT !.pc = "maps", !.i = fr.i + 1])
          [] OTHER -> Return(stack, par)

Grid_dds(stack, par) ==
    LET fr == Top(stack)
        n == fr.node
        dims == Dimensions(n)
    IN  CASE fr.pc = "start" ->
                IF Meets(fr, par)
                THEN LET slices == parse_slice_constraint(fr.c)
                     IN  IF IsParseErr(slices)
                         THEN Throw(stack, par, slices[1].e)
                         ELSE Yield(stack, par,
                                    [fr EXCEPT !.pc = "Array:",
                                               !.slices = slices],
                                    ddshead(n, par), Tag(n, "head", 0))
                ELSE Return(stack, par)
          [] fr.pc = "Array:" ->
                Yield(stack, par, [fr EXCEPT !.pc = "declaration"],
                      indent(n, par) \o <<" ", " ", "A", "r", "r", "a", "y",
                                          ":", "\n">>,
                      Tag(n, "Array:", 0))
          [] fr.pc = "declaration" ->
                Yield(stack, par, [fr EXCEPT !.pc = "lengths", !.i = 1],
                      indent(n, par) \o INDENT \o Txt(DtypeOf(n)) \o <<" ">>
                          \o Name(n),
                      Tag(n, "declaration", 0))
          [] fr.pc = "lengths" ->
                IF fr.i <= Len(dims)
                THEN LET dim == dims[fr.i]
                         buf == Index(data[dim],
                                      <<SelectorAt(fr.slices, fr.i)>>)
                     IN  IF IsErr(buf) THEN Throw(stack, par, buf.err)
                         ELSE Yield(stack, par, [fr EXCEPT !.i = fr.i + 1],
                                    <<"[">> \o Name(dim) \o <<" ", "=", " ">>
                                        \o LengthText(buf) \o <<"]">>,
                                    Tag(n, "extent", fr.i))
                ELSE Yield(stack, par, [fr EXCEPT !.pc = "Maps:"],
                           <<";", "\n">>, Tag(n, "semicolon", 0))
          [] fr.pc = "Maps:" ->
                Yield(stack, par, [fr EXCEPT !.pc = "maps", !.i = 1],
                      indent(n, par) \o <<" ", " ", "M", "a", "p", "s", ":",
                                          "\n">>,
                      Tag(n, "Maps:", 0))
          [] fr.pc = "maps" ->
                IF fr.i <= Len(dims)
                THEN LET dim == dims[fr.i]
                     IN  Call(stack, [par EXCEPT ![dim] = n],
                              [fr EXCEPT !.pc = "restore", !.orig = par[dim]],
                              [Frame("dds", dim, <<>>) EXCEPT
                                  !.slicing = SelectorAt(fr.slices, fr.i)])
                ELSE Yield(stack, par, [fr EXCEPT !.pc = "end"],
                           ddstail(n, par), Tag(n, "tail", 0))
          [] fr.pc = "restore" ->
                Goto(stack, [par EXCEPT ![dims[fr.i]] = fr.orig],
                     [fr EXCEPT !.pc = "maps", !.i = fr.i + 1])
          [] OTHER -> Return(stack, par)

Attribute_das(stack, par) ==
    LET fr == Top(stack)
        n == fr.node
        d == IF DtypeOf(n) = "String" THEN <<"\"">> ELSE <<>>
    IN  IF fr.pc = "start"
        THEN Yield(stack, par, [fr EXCEPT !.pc = "end"],
                   indent(n, par) \o Txt(DtypeOf(n)) \o <<" ">> \o Name(n)
                       \o <<" ">> \o d \o AttrValue(n) \o d \o <<";", "\n">>,
                   Tag(n, "attribute", 0))
        ELSE Return(stack, par)

Attribute_dds(stack, par) ==
    LET fr == Top(stack)
    IN  IF fr.pc = "start"
        THEN Yield(stack, par, [fr EXCEPT !.pc = "end"], <<>>,
                   Tag(fr.node, "empty", 0))
        ELSE Return(stack, par)

(***************************************************************************)
(* Running a generator object.                                             *)
(***************************************************************************)
\* the method the class of the node defines or inherits
Step(stack, par) ==
    LET fn == Top(stack).fn
        k == Kind(Top(stack).node)
    IN  CASE fn = "dods_encode" -> dods_encode_step(stack, par)
          [] fn = "dods" -> DAPObject_dods(stack, par)
          [] fn = "dds" /\ k = "Attribute" -> Attribute_dds(stack, par)
          [] fn = "dds" /\ k = "Array" -> Array_dds(stack, par)
          [] fn = "dds" /\ k = "Grid" -> Grid_dds(stack, par)
          [] fn = "dds" /\ k = "Sequence" -> Sequence_dds(stack, par)
          [] fn = "dds" /\ k = "Atom" -> DAPAtom_dds(stack, par)
          [] fn = "dds" -> DAPObject_dds(stack, par)
          [] fn = "das" /\ k = "Attribute" -> Attribute_das(stack, par)
          [] fn = "das" /\ k = "Sequence" -> Sequence_das(stack, par)
          [] fn = "das" /\ k = "Atom" -> DAPAtom_das(stack, par)
          [] fn = "das" -> DAPObject_das(stack, par)
          [] fn = "dods_data" /\ k = "Atom" -> DAPAtom_dods_data(stack, par)
          [] fn = "dods_data" /\ k = "Dataset" -> Dataset_dods_data(stack, par)
          [] fn = "dods_data" /\ k = "Sequence" ->
                Sequence_dods_data(stack, par)
          [] fn = "dods_data" /\ k = "SequenceInstance" ->
                SequenceInstance_dods_data(stack, par)
          [] fn = "dods_data" /\ k \in {"Array", "Grid"} ->
                DAPDataObject_dods_data(stack, par)
          [] OTHER -> DAPObject_dods_data(stack, par)

\* what the consumer receives for a chunk that the top frame yields: the
\* frame of dods() encodes the statements of its dds() loop
Delivered(stack, chunk) ==
    IF \E k \in 1..(Len(stack) - 1) : stack[k].fn = "dods" /\ stack[k].pc = "dds"
    THEN Encode(chunk)
    ELSE chunk

\* next(generator): run to the next yield, to the end or to an exception
RECURSIVE Resume(_, _)
Continue(r) == IF r.err # "" \/ r.y # <<>> THEN r ELSE Resume(r.stack, r.par)

Resume(stack, par) ==
    IF Len(stack) = 0
    THEN [stack |-> stack, par |-> par, y |-> <<>>, tag |-> NoTag, err |-> ""]
    ELSE \* the step is taken once and r names its result
         CHOOSE res \in {Continue(r) : r \in {Step(stack, par)}} : TRUE

\* A generator object: status "none" before it is created, "ready" while it
\* can be resumed, then "done" or "error".  out holds the chunks it yielded,
\* tags the place of each; fn and par0 record the call that created it and
\* the parent links at that time.
(***************************************************************************)
(* The process-wide configuration: class Config holds the target size of   *)
(* an encoded chunk, 20e6 bytes when the module is loaded.                 *)
(***************************************************************************)
DefaultChunkSize == 20000000

DefaultConfig == [DASK_ENCODE_CHUNK_SIZE |-> DefaultChunkSize]

NoStream ==
    [status |-> "none", fn |-> "", stack |-> <<>>, out |-> <<>>,
     tags |-> <<>>, err |-> "", par0 |-> <<>>]

NewStream(fr, par) ==
    [NoStream EXCEPT !.status = "ready", !.fn = fr.fn, !.stack = <<fr>>,
                     !.par0 = par]

Streams == {1, 2}

Pending == [done |-> FALSE]
Returned(v) == [done |-> TRUE, value |-> v]

\* the consumer pulls the next chunk of stream s
Pull(s) ==
    /\ streams[s].status = "ready"
    /\ \E r \in {Resume(streams[s].stack, parent)} :
          /\ parent' = r.par
          /\ streams' = [streams EXCEPT ![s] =
                IF r.err # ""
                THEN [@ EXCEPT !.status = "error", !.err = r.err,
                               !.stack = <<>>]
                ELSE IF r.y = <<>>
                THEN [@ EXCEPT !.status = "done", !.stack = <<>>]
                ELSE [@ EXCEPT !.stack = r.stack,
                               !.out = Append(@, Delivered(r.stack, r.y[1])),
                               !.tags = Append(@, r.tag)]]
    /\ UNCHANGED <<Config, children, data, constraint, call, ret>>

(***************************************************************************)
(* Building the tree.                                                      *)
(***************************************************************************)
RECURSIVE DAPObject_append(_, _, _)
DAPObject_append(tr, p, objs) ==
    IF Len(objs) = 0 THEN tr
    ELSE DAPObject_append(
            [children |-> [tr.children EXCEPT ![p] = Append(@, Head(objs))],
             parent |-> [tr.parent EXCEPT ![Head(objs)] = p]],
            p, Tail(objs))

\* validates() returns True for every item
Sequence_append(tr, p, items) == DAPObject_append(tr, p, items)

add_schema(tr, q, schema) ==
    [tr EXCEPT !.parent = [tr.parent EXCEPT ![schema] = q]]

\* every object constructed, none attached
Constructed ==
    [children |-> [n \in Nodes |-> <<>>], parent |-> [n \in Nodes |-> None]]

RECURSIVE WithInstances(_, _)
WithInstances(tr, k) ==
    IF k = 0 THEN tr
    ELSE DAPObject_append(WithInstances(tr, k - 1), Inst(k), <<Val(k)>>)

\* the grid with its attributes, the structure with its atom, the sequence
\* with its schema, every instance with its value
Parts ==
    WithInstances(
        DAPObject_append(
            DAPObject_append(
                DAPObject_append(add_schema(Constructed, Qseq, Qschema),
                                 Qschema, <<Ffield>>),
                Zgrid, <<Units, Size>>),
            Sstruct, <<Aatom>>),
        MaxInst)

\* the trees served: what dataset.append(...) calls put under the Dataset
Trees ==
    {DAPObject_append(Parts, Dset, <<Xarr, Yarr, Zgrid>>),
     DAPObject_append(Parts, Dset, <<Zgrid, Xarr, Yarr>>),
     DAPObject_append(Parts, Dset, <<Zgrid>>),
     DAPObject_append(DAPObject_append(Parts, Dset, <<Xarr, Yarr, Sstruct>>),
                      Sstruct, <<Zgrid>>),
     DAPObject_append(Parts, Dset, <<Sstruct, Qseq>>),
     DAPObject_append(Parts, Dset, <<Qseq, Yarr, Zgrid, Sstruct, Xarr>>)}

\* the arrays of test_arrays, as numpy arrays or as dask arrays
TestData(lazy) ==
    LET arr(shape, flat) ==
            [shape |-> shape, flat |-> flat, lazy |-> lazy,
             chunks |-> IF lazy THEN [a \in 1..Len(shape) |-> <<shape[a]>>]
                        ELSE <<>>]
    IN  [n \in Nodes |->
            CASE n = Xarr -> arr(<<2>>, <<0, 1>>)
              [] n = Yarr -> arr(<<2>>, <<10, 11>>)
              [] n = Zgrid -> arr(<<2, 2>>, <<2, 3, 4, 5>>)
              [] OTHER -> NoData]

Constraints ==
    {
     <<>>,
     <<"z">>,
     <<"z", ".", "z", "[", "0", "]", "[", "0", "]">>,
     <<"x">>,
     <<"x", ",", "y">>,
     <<"z", "[", "0", "]">>,
     <<"z", "[", "0", ":", "0", "]", "[", "1", "]">>,
     <<"z", "[", ":", "]", "[", "0", "]">>,
     <<"z", "[", ":", "]", "[", ":", "]">>,
     <<"z", "[", "0", "]", "[", ":", "]">>,
     <<"z", "[", "5", "]">>,
     <<"z", "[", "1", ":", "]">>,
     <<"s">>,
     <<"s", ".", "a">>,
     <<"q">>,
     <<"q", ".", "f">>,
     <<"x", "[", "0", "]", ",", "y">>,
     <<"x", ",", "z", "[", "0", "]", "[", "0", "]">>,
     <<"s", ".", "z", "[", "1", "]", "[", "1", "]">>,
     <<"y", ",", "q", ",", "s", ".", "a">>}

NoCall == [fn |-> "none"]

Init ==
    /\ Config = DefaultConfig
    /\ streams = [s \in Streams |-> NoStream]
    /\ call = NoCall
    /\ ret = Pending
    /\ \E tr \in Trees, lazy \in BOOLEAN, c \in Constraints :
          /\ children = tr.children
          /\ parent = tr.parent
          /\ data = TestData(lazy)
          /\ constraint = c

Unserved == \A s \in Streams : streams[s].status = "none"

\* sequence.append(SequenceInstance()) while the tree is assembled
SequenceAppend ==
    /\ Unserved
    /\ parent[Qseq] # None
    /\ Len(children[Qseq]) < MaxInst
    /\ LET tr == Sequence_append([children |-> children, parent |-> parent],
                                 Qseq, <<Inst(Len(children[Qseq]) + 1)>>)
       IN  children' = tr.children /\ parent' = tr.parent
    /\ UNCHANGED <<Config, data, constraint, streams, call, ret>>

\* dataset.dds(constraint), .das(constraint), .dods(constraint): the call
\* creates the generator object and runs none of its code
StartDds(s) ==
    /\ streams[s].status = "none"
    /\ streams' = [streams EXCEPT
                      ![s] = NewStream(Frame("dds", Dset, constraint), parent)]
    /\ UNCHANGED <<Config, children, parent, data, constraint, call, ret>>

StartDas(s) ==
    /\ streams[s].status = "none"
    /\ streams' = [streams EXCEPT
                      ![s] = NewStream(Frame("das", Dset, constraint), parent)]
    /\ UNCHANGED <<Config, children, parent, data, constraint, call, ret>>

StartDods(s) ==
    /\ streams[s].status = "none"
    /\ streams' = [streams EXCEPT
                      ![s] = NewStream(Frame("dods", Dset, constraint), parent)]
    /\ UNCHANGED <<Config, children, parent, data, constraint, call, ret>>

Next ==
    \/ SequenceAppend
    \/ StartDds(1)
    \/ StartDas(1)
    \/ StartDods(1)
    \/ Pull(1)

Spec == Init /\ [][Next]_vars

(***************************************************************************)
(* dods_encode called on its own, on every buffer within the bounds.       *)
(***************************************************************************)
Dtypes == {"Byte", "Int16", "UInt16", "Int32", "UInt32", "Float32", "Float64"}

\* the first element of the buffers drawn; element k is First + k
Firsts == {0, 0 - 3}

SeqsOf(S, n) == UNION {[1..k -> S] : k \in 0..n}

Shapes == SeqsOf(0..MaxDim, MaxRank)

\* the ways dask may chunk an axis of length n
Chunkings(n) ==
    IF n = 0 THEN {<<0>>}
    ELSE {c \in UNION {[1..k -> 1..n] : k \in 1..n} : SumSeq(c) = n}

ChunkSets(shape) ==
    {cs \in [1..Len(shape) -> UNION {Chunkings(n) : n \in 0..MaxDim}] :
        /\ \A a \in 1..Len(shape) : cs[a] \in Chunkings(shape[a])
        /\ \A a \in 2..Len(shape) : Len(cs[a]) = 1}

NumpyArray(shape, first) ==
    [shape |-> shape, flat |-> [k \in 1..Prod(shape) |-> first + k - 1],
     lazy |-> FALSE, chunks |-> <<>>]

DaskArray(shape, first, chunks) ==
    [NumpyArray(shape, first) EXCEPT !.lazy = TRUE, !.chunks = chunks]

\* numpy.asarray(dask array): the same elements, in memory
Materialised(buf) == [buf EXCEPT !.lazy = FALSE, !.chunks = <<>>]

Buffers ==
    {[py |-> v] : v \in Firsts}
    \cup {NumpyArray(sh, f) : sh \in Shapes, f \in Firsts}
    \cup UNION {{DaskArray(sh, f, cs) : cs \in ChunkSets(sh), f \in Firsts} :
                   sh \in Shapes}

InitEncode ==
    /\ Config = DefaultConfig
    /\ children = <<>>
    /\ parent = <<>>
    /\ data = <<>>
    /\ constraint = <<>>
    /\ ret = Pending
    /\ \E b \in Buffers, t \in Dtypes :
          /\ call = [fn |-> "dods_encode", data |-> b, dtype |-> t]
          /\ streams = [s \in Streams |->
                           IF s = 1
                           THEN NewStream(EncodeFrame(None, 0, b, t), <<>>)
                           ELSE NoStream]

NextEncode == Pull(1)

SpecEncode == InitEncode /\ [][NextEncode]_vars

(***************************************************************************)
(* b''.join(generator): the chunks of a generator run to its end, and the  *)
(* exception that ended it, if any.                                        *)
(***************************************************************************)
RECURSIVE Drain(_, _, _)
Drain(stack, par, acc) ==
    LET r == Resume(stack, par)
    IN  IF r.err # "" THEN [out |-> acc, err |-> r.err, par |-> r.par]
        ELSE IF r.y = <<>> THEN [out |-> acc, err |-> "", par |-> r.par]
        ELSE Drain(r.stack, r.par, acc \o Delivered(r.stack, r.y[1]))

Finished(s) == streams[s].status \in {"done", "error"}

\* the value of four bytes read as a big-endian integer
BEValue(b) == ((b[1] * 256 + b[2]) * 256 + b[3]) * 256 + b[4]

(***************************************************************************)
(* C4: for every array of rank >= 1 passed to dods_encode, of any shape,   *)
(* empty ones included, the first chunk emitted is 8 bytes: two equal      *)
(* big-endian 32-bit integers whose value is the product of the array's    *)
(* dimensions; no element bytes come before it.                            *)
(***************************************************************************)
C4_DuplicateLengthPrefix ==
    (HasShape(call.data) /\ Len(call.data.shape) >= 1) =>
        LET st == streams[1]
        IN  /\ Finished(1) => Len(st.out) >= 1
            /\ Len(st.out) >= 1 =>
                  /\ st.tags[1].role = "length"
                  /\ Len(st.out[1]) = 8
                  /\ Sub(st.out[1], 1, 4) = Sub(st.out[1], 5, 8)
                  /\ BEValue(Sub(st.out[1], 1, 4)) = Prod(call.data.shape)
                  /\ \A k \in 2..Len(st.out) : st.tags[k].role = "elems"

\* a chunked 2 x 2 array, read in two blocks, was encoded to the end
C4_Witness ==
    /\ HasShape(call.data)
    /\ call.data.shape = <<2, 2>>
    /\ call.data.lazy
    /\ streams[1].status = "done"
    /\ Len(streams[1].out) = 3

(***************************************************************************)
(* C7: for identical data of any rank, rank 0 included, and any chunking   *)
(* along axis 0, the chunks dods_encode yields for a chunked (dask) buffer *)
(* concatenate to the byte string it yields for the materialised array.    *)
(***************************************************************************)
C7_ChunkedEqualsFlat ==
    (HasShape(call.data) /\ call.data.lazy /\ Finished(1)) =>
        LET flat == Drain(<<EncodeFrame(None, 0, Materialised(call.data),
                                        call.dtype)>>, parent, <<>>)
        IN  /\ streams[1].err = flat.err
            /\ Concat(streams[1].out) = flat.out

(***************************************************************************)
(* C8 as claimed: for a plain number and for a rank-0 buffer alike (here   *)
(* the buffers held in memory), dods_encode emits no length prefix: the    *)
(* output is only the single big-endian value.                             *)
(***************************************************************************)
C8_Rank0NoPrefix ==
    ((~HasShape(call.data) \/ (call.data.shape = <<>> /\ ~call.data.lazy))
        /\ Finished(1)) =>
        /\ streams[1].status = "done"
        /\ Concat(streams[1].out) =
              ElemBytes(AsArray(call.data).flat[1], DtypeStr(call.dtype))

(***************************************************************************)
(* C8 as amended: dods_encode treats data as a scalar only when it has no  *)
(* shape attribute.  For a plain number no length prefix is emitted and    *)
(* the output is only the single big-endian value; a rank-0 numpy buffer   *)
(* (an array indexed down to one element) has a shape attribute and is     *)
(* encoded as an array: the length 1 twice, then the value.                *)
(***************************************************************************)
C8_ScalarIffNoShape ==
    Finished(1) =>
        LET v == ElemBytes(AsArray(call.data).flat[1], DtypeStr(call.dtype))
            bytes == Concat(streams[1].out)
        IN  /\ ~HasShape(call.data) =>
                  streams[1].status = "done" /\ bytes = v
            /\ (HasShape(call.data) /\ call.data.shape = <<>>
                    /\ ~call.data.lazy) =>
                  /\ streams[1].status = "done"
                  /\ bytes = <<0, 0, 0, 1, 0, 0, 0, 1>> \o v

\* a rank-0 numpy buffer was encoded to the end, as Float32
C8_Witness ==
    /\ HasShape(call.data)
    /\ call.data.shape = <<>>
    /\ ~call.data.lazy
    /\ call.dtype = "Float32"
    /\ streams[1].status = "done"

(***************************************************************************)
(* meets_constraint called on its own.                                     *)
(***************************************************************************)
Exprs == SeqsOf({"x", "y", ".", ","}, MaxExprLen)

Paths == SeqsOf({"x", ".", ","}, MaxPathLen)

\* the expressions and paths of test_meets_constraint, and "xy.z" with "x"
NamedExprs ==
    {<<"x", "y", ".", "z">>,
     <<"t", "e", "s", "t", ".", "o", "b", "j", "e", "c", "t", ".", "p", "a", "t", "h">>}

NamedPaths ==
    {<<"t", "e", "s", "t">>,
     <<"t", "e", "s", "t", ".", "o", "b", "j", "e", "c", "t">>,
     <<"t", "e", "s", "t", "1", ".", "o", "b", "j", "e", "c", "t">>}

InitMeets ==
    /\ Config = DefaultConfig
    /\ children = <<>>
    /\ parent = <<>>
    /\ data = <<>>
    /\ constraint = <<>>
    /\ streams = [s \in Streams |-> NoStream]
    /\ ret = Pending
    /\ \E e \in Exprs \cup NamedExprs, p \in Paths \cup NamedPaths :
          call = [fn |-> "meets_constraint", expr |-> e, path |-> p]

CallMeetsConstraint ==
    /\ ~ret.done
    /\ ret' = Returned(meets_constraint(call.expr, call.path))
    /\ UNCHANGED <<Config, children, parent, data, constraint, streams, call>>

NextMeets == CallMeetsConstraint

SpecMeets == InitMeets /\ [][NextMeets]_vars

(***************************************************************************)
(* C2: meets_constraint(expr, path) is true if and only if expr is empty   *)
(* or one of the comma-separated projections of expr starts with path,     *)
(* character by character; so the empty constraint matches every path and  *)
(* the empty path matches every constraint.                                *)
(***************************************************************************)
\* a projection of e starts at position i
ProjectionStart(e, i) == i = 1 \/ (i >= 2 /\ i <= Len(e) + 1 /\ e[i - 1] = ",")

C2_MeetsIffRawPrefix ==
    ret.done =>
        LET e == call.expr
            p == call.path
        IN  /\ ret.value =
                  (\/ e = <<>>
                   \/ \E i \in 1..(Len(e) + 1) :
                         /\ ProjectionStart(e, i)
                         /\ i - 1 + Len(p) <= Len(e)
                         /\ \A k \in 1..Len(p) :
                               e[i - 1 + k] = p[k] /\ p[k] # ",")
            /\ e = <<>> => ret.value
            /\ p = <<>> => ret.value

\* the second projection of "y,x." starts with the path "x"
C2_Witness ==
    /\ ret.done
    /\ call.expr = <<"y", ",", "x", ".">>
    /\ call.path = <<"x">>
    /\ ret.value

\* C13: meets_constraint("xy.z", "x") is false, while
\* meets_constraint("test.object.path", "test") and
\* meets_constraint("test.object.path", "test.object") are true.
C13_SegmentNotMatched ==
    ret.done =>
        /\ (call.expr = <<"x", "y", ".", "z">> /\ call.path = <<"x">>)
              => ~ret.value
        /\ (/\ call.expr = Txt("test") \o <<".">> \o <<"o", "b", "j", "e", "c",
                                                       "t">>
                           \o <<".", "p", "a", "t", "h">>
            /\ call.path \in {Txt("test"),
                              Txt("test") \o <<".", "o", "b", "j", "e", "c",
                                               "t">>})
              => ret.value

(***************************************************************************)
(* parse_slice_constraint called on its own: the constraint is a           *)
(* projection list followed by bracket groups.                             *)
(***************************************************************************)
Num(n) == [t |-> "n", a |-> n, b |-> 0]
Rng(a, b) == [t |-> "a:b", a |-> a, b |-> b]
Colon == [t |-> ":", a |-> 0, b |-> 0]
EmptyGroup == [t |-> "", a |-> 0, b |-> 0]
OpenRng(a) == [t |-> "a:", a |-> a, b |-> 0]

\* the bodies of the bracket groups drawn
Groups ==
    {Num(0), Num(1), Num(12), Colon, Rng(0, 1), Rng(4, 7), Rng(1, 0),
     EmptyGroup, OpenRng(1)}

GroupText(g) ==
    <<"[">> \o
    (CASE g.t = "n" -> IntToStr(g.a)
       [] g.t = "a:b" -> IntToStr(g.a) \o <<":">> \o IntToStr(g.b)
       [] g.t = ":" -> <<":">>
       [] g.t = "a:" -> IntToStr(g.a) \o <<":">>
       [] OTHER -> <<>>)
    \o <<"]">>

\* the projection lists the bracket groups are put behind
Prefixes ==
    {<<>>, <<"z">>, <<"z", ".", "z">>, <<"x", ",", "z">>,
     <<"x", "[", "0", "]", ",", "y">>}

InitParse ==
    /\ Config = DefaultConfig
    /\ children = <<>>
    /\ parent = <<>>
    /\ data = <<>>
    /\ streams = [s \in Streams |-> NoStream]
    /\ ret = Pending
    /\ \E p \in Prefixes, gs \in SeqsOf(Groups, MaxGroups) :
          /\ call = [fn |-> "parse_slice_constraint", prefix |-> p,
                     groups |-> gs]
          /\ constraint = p \o Concat([i \in 1..Len(gs) |-> GroupText(gs[i])])

CallParseSliceConstraint ==
    /\ ~ret.done
    /\ ret' = Returned(parse_slice_constraint(constraint))
    /\ UNCHANGED <<Config, children, parent, data, constraint, streams, call>>

NextParse == CallParseSliceConstraint

SpecParse == InitParse /\ [][NextParse]_vars

(***************************************************************************)
(* C3: parse_slice_constraint gives one selector per bracket group of the  *)
(* trailing bracket suffix, in order: [n] gives the integer n, [a:b] the   *)
(* half-open range slice(a, b + 1) (b - a + 1 indices when a <= b), [:]    *)
(* the whole-axis marker; a constraint without a bracket suffix, and the   *)
(* constraint "[]", give the one-element tuple (all,).                     *)
(***************************************************************************)
Claimed(g) == g.t \in {"n", "a:b", ":"}

SelectorOf(g) ==
    CASE g.t = "n" -> [k |-> "int", n |-> g.a]
      [] g.t = "a:b" -> [k |-> "slice", a |-> g.a, b |-> g.b + 1]
      [] OTHER -> [k |-> "all"]

C3_OneSelectorPerGroup ==
    ret.done =>
        LET gs == call.groups
        IN  /\ (gs # <<>> /\ \A i \in 1..Len(gs) : Claimed(gs[i])) =>
                  /\ ret.value = [i \in 1..Len(gs) |-> SelectorOf(gs[i])]
                  /\ \A i \in 1..Len(gs) :
                        (gs[i].t = "a:b" /\ gs[i].a <= gs[i].b) =>
                            Len(Range(ret.value[i].a, ret.value[i].b, 1))
                                = gs[i].b - gs[i].a + 1
            /\ gs = <<>> => ret.value = <<[k |-> "all"]>>
            /\ constraint = <<"[", "]">> => ret.value = <<[k |-> "all"]>>

\* "z.z[0][:][4:7]" was parsed to (0, all, slice(4, 8))
C3_Witness ==
    /\ ret.done
    /\ call.prefix = <<"z", ".", "z">>
    /\ call.groups = <<Num(0), Colon, Rng(4, 7)>>
    /\ ret.value = <<[k |-> "int", n |-> 0], [k |-> "all"],
                     [k |-> "slice", a |-> 4, b |-> 8]>>

\* C12: parsing a bracket group [a:b] with a > b fails with an error; it
\* never gives a selector (such as an empty range) to slice data with.
C12_DescendingRangeFails ==
    ret.done =>
        ((\E i \in 1..Len(call.groups) :
             call.groups[i].t = "a:b" /\ call.groups[i].a > call.groups[i].b)
         => IsParseErr(ret.value))

(***************************************************************************)
(* Streams served from a tree (specification Spec).                        *)
(***************************************************************************)
Done(s) == streams[s].status = "done"

\* the positions of the chunks of stream s that node n yielded in a role
At(s, n, role) ==
    {j \in 1..Len(streams[s].tags) :
        streams[s].tags[j].node = n /\ streams[s].tags[j].role = role}

\* everything stream s delivered so far, joined
Joined(s) == Concat(streams[s].out)

\* C1: the output of dods(constraint) is the text of dds(constraint) encoded
\* as bytes, then the byte "\n", then what dods_data(constraint) yields,
\* which starts with "Data:\r\n"; nothing else is in between.  When dds or
\* dods_data raises, dods raises the same exception after the same output.
C1_DodsIsDdsNewlineData ==
    \A s \in Streams :
        (streams[s].fn = "dods" /\ Finished(s)) =>
            LET text == Drain(<<Frame("dds", Dset, constraint)>>,
                              streams[s].par0, <<>>)
                bin == Drain(<<Frame("dods_data", Dset, constraint)>>,
                             text.par, <<>>)
            IN  IF text.err # ""
                THEN /\ streams[s].status = "error"
                     /\ streams[s].err = text.err
                     /\ Joined(s) = Encode(text.out)
                ELSE /\ StartsWith(bin.out, DataMarker)
                     /\ Joined(s) = Encode(text.out) \o <<10>> \o bin.out
                     /\ streams[s].err = bin.err
                     /\ Done(s) <=> bin.err = ""

\* a DODS response with a description, the separator and array payloads
C1_Witness ==
    /\ streams[1].fn = "dods"
    /\ Done(1)
    /\ At(1, Dset, "head") # {}
    /\ At(1, Dset, "newline") # {}
    /\ At(1, Zgrid, "elems") # {}

\* C10: when a DDS or DODS stream has been consumed to completion, every
\* dimension of the Grid has the parent it had when the stream was created;
\* while the stream is suspended at a line of the Maps section, that
\* dimension has the Grid as parent and its line is indented one level
\* deeper than the Grid.
C10_DimensionParentRestored ==
    \A s \in Streams :
        streams[s].fn \in {"dds", "dods"} =>
            /\ Done(s) =>
                  \A i \in 1..Len(Dimensions(Zgrid)) :
                      parent[Dimensions(Zgrid)[i]]
                          = streams[s].par0[Dimensions(Zgrid)[i]]
            /\ \A i \in 1..Len(Dimensions(Zgrid)) :
                  \A j \in At(s, Dimensions(Zgrid)[i], "map") :
                      /\ j = Len(streams[s].tags) => 
                            parent[Dimensions(Zgrid)[i]] = Zgrid
                      /\ StartsWith(streams[s].out[j],
                                    IF streams[s].fn = "dods"
                                    THEN Encode(indent(Zgrid, parent) \o INDENT
                                                \o Txt(DtypeOf(Xarr)))
                                    ELSE indent(Zgrid, parent) \o INDENT
                                         \o Txt(DtypeOf(Xarr)))

\* a completed stream that printed the Maps section of the Grid
C10_Witness ==
    /\ streams[1].fn \in {"dds", "dods"}
    /\ Done(1)
    /\ \A i \in 1..Len(Dimensions(Zgrid)) :
          At(1, Dimensions(Zgrid)[i], "map") # {}

\* the nodes of the tree in declaration order (a parent before its children)
RECURSIVE Preorder(_)
Preorder(n) ==
    <<n>> \o Concat([i \in 1..Len(children[n]) |-> Preorder(children[n][i])])

\* the place of node n in a listing of the nodes
Pos(order, n) == CHOOSE i \in 1..Len(order) : order[i] = n

\* the chunks of the payload that node n yielded for its part, joined
RECURSIVE PayloadFrom(_, _, _, _)
PayloadFrom(s, n, part, j) ==
    IF j > Len(streams[s].tags) THEN <<>>
    ELSE (IF /\ streams[s].tags[j].node = n
             /\ streams[s].tags[j].part = part
             /\ streams[s].tags[j].role \in {"length", "elems"}
          THEN streams[s].out[j] ELSE <<>>)
         \o PayloadFrom(s, n, part, j + 1)

\* the elements of a one-dimensional array that a selector takes
Taken(flat, sel) ==
    CASE sel.k = "int" -> <<flat[sel.n + 1]>>
      [] sel.k = "slice" -> Sub(flat, sel.a + 1, Min(sel.b, Len(flat)))
      [] OTHER -> flat

\* the payload of dimension k of the Grid under the selector of axis k
ExpectedMap(k) ==
    LET dim == Dimensions(Zgrid)[k]
        took == Taken(data[dim].flat,
                      SelectorAt(parse_slice_constraint(constraint), k))
    IN  PackedLength(Len(took)) \o ToBytes(took, DtypeStr(DtypeOf(dim)))

\* C5: in the data section the payloads come in the declaration order of
\* the nodes; the payloads of a Grid are its primary array first and then
\* its dimensions in declaration order, none before the primary one; the
\* payload of dimension k holds the elements that the selector of axis k
\* takes from that dimension (checked once that payload is complete).
C5_PayloadOrder ==
    \A s \in Streams :
        streams[s].fn = "dods" =>
            LET t == streams[s].tags
                P == {j \in 1..Len(t) : t[j].role = "length"}
                order == Preorder(Dset)
                at == [j \in P |-> Pos(order, t[j].node)]
            IN  /\ \A i, j \in P :
                      i < j => \/ at[i] < at[j]
                               \/ /\ t[i].node = t[j].node
                                  /\ t[i].part < t[j].part
                /\ \A j \in P :
                      t[j].part > 0 =>
                          /\ t[j].node = Zgrid
                          /\ \E i \in P : /\ i < j
                                          /\ t[i].node = Zgrid
                                          /\ t[i].part = t[j].part - 1
                /\ \A k \in 1..Len(Dimensions(Zgrid)) :
                      (\E j \in P :
                          /\ t[j].node = Zgrid
                          /\ \/ t[j].part = k /\ Done(s)
                             \/ t[j].part = k + 1)
                      => PayloadFrom(s, Zgrid, k, 1) = ExpectedMap(k)

\* a completed response with the payload of an Array and the payloads of a
\* Grid whose two axes have different selectors
C5_Witness ==
    /\ streams[1].fn = "dods"
    /\ Done(1)
    /\ \E j \in At(1, Zgrid, "length") : streams[1].tags[j].part = 2
    /\ SelectorAt(parse_slice_constraint(constraint), 1)
          # SelectorAt(parse_slice_constraint(constraint), 2)

\* the positions of the chunks that the k-th instance of the Sequence yielded
InstanceAt(s, k) ==
    {j \in 1..Len(streams[s].tags) :
        \E i \in 1..Len(children[children[Qseq][k]]) :
            streams[s].tags[j].node = children[children[Qseq][k]][i]}

\* C9: the data of a Sequence that meets the constraint and has n instances
\* holds n start markers 5a 00 00 00 and one end marker a5 00 00 00; the
\* k-th start marker is immediately followed by the bytes of the k-th
\* instance, the instances come in the order of the children, and the end
\* marker comes last (with n = 0 it is all the Sequence yields).
C9_SequenceMarkers ==
    \A s \in Streams :
        (/\ streams[s].fn = "dods"
         /\ Done(s)
         /\ parent[Qseq] = Dset
         /\ meets_constraint(constraint, Name(Qseq))) =>
            LET t == streams[s].tags
                n == Len(children[Qseq])
                S == At(s, Qseq, "start_of_inst")
                E == At(s, Qseq, "end_of_seq")
            IN  /\ Cardinality(S) = n
                /\ Cardinality(E) = 1
                /\ \A j \in S : streams[s].out[j] = <<90, 0, 0, 0>>
                /\ \A j \in E : streams[s].out[j] = <<165, 0, 0, 0>>
                /\ \A k \in 1..n :
                      \E j \in S :
                          /\ t[j].part = k
                          /\ \A i \in S : t[i].part < k => i < j
                          /\ InstanceAt(s, k)
                                = (j + 1)..(j + Cardinality(InstanceAt(s, k)))
                /\ \A j \in E :
                      /\ \A i \in S : i < j
                      /\ \A k \in 1..n : \A i \in InstanceAt(s, k) : i < j
                      /\ children[Dset][Len(children[Dset])] = Qseq
                            => j = Len(t)

\* a completed response with a Sequence of two instances whose values were
\* encoded
C9_Witness ==
    /\ streams[1].fn = "dods"
    /\ Done(1)
    /\ Len(children[Qseq]) = 2
    /\ Cardinality(At(1, Qseq, "start_of_inst")) = 2
    /\ InstanceAt(1, 2) # {}

\* what a container declares: the fields of its schema for a Sequence, its
\* children otherwise
DeclChildren(n) ==
    IF Kind(n) = "Sequence" THEN children[SchemaOf(n)] ELSE children[n]

\* the declarations below node n: each with its dotted path and whether
\* the paths of all its ancestors meet the constraint
RECURSIVE Decls(_, _, _)
Decls(n, path, up) ==
    {[node |-> n, path |-> path, up |-> up]}
    \cup UNION {Decls(DeclChildren(n)[i],
                      IF n = Dset THEN Name(DeclChildren(n)[i])
                      ELSE JoinDot(path, Name(DeclChildren(n)[i])),
                      up /\ meets_constraint(constraint, path)) :
                i \in 1..Len(DeclChildren(n))}

Described == {"Structure", "Atom", "Array", "Grid", "Sequence"}

\* node n yielded text of its own (a line of the Maps section is text of
\* the Grid that prints it)
OwnText(s, n) ==
    \E j \in 1..Len(streams[s].tags) :
        /\ streams[s].tags[j].node = n
        /\ streams[s].tags[j].role # "map"
        /\ streams[s].out[j] # <<>>

\* C6 (as amended): in a DDS or DAS, a Structure, Atom, Array, Grid or
\* Sequence declared in the tree (a child of a printed container, or a
\* field of the schema of a Sequence) yields its text if and only if its
\* path and the paths of all its ancestors meet the constraint; an
\* Attribute of a printed node has its line in the DAS and no text in the
\* DDS; the Maps section of a printed Grid holds a line for every
\* dimension, whatever the path of that Array; nothing else yields text
\* (the Atoms of a SequenceInstance are never described).
C6_DeclaredNodeIffMeets ==
    \A s \in Streams :
        (streams[s].fn \in {"dds", "das"} /\ Done(s)) =>
            LET D == Decls(Dset, <<>>, TRUE)
            IN  /\ \A d \in D :
                      /\ Kind(d.node) \in Described =>
                            (OwnText(s, d.node)
                                <=> (d.up /\ meets_constraint(constraint,
                                                              d.path)))
                      /\ Kind(d.node) = "Attribute" =>
                            (OwnText(s, d.node)
                                <=> (d.up /\ streams[s].fn = "das"))
                      /\ d.node = Zgrid =>
                            \A i \in 1..Len(Dimensions(Zgrid)) :
                                At(s, Dimensions(Zgrid)[i], "map") # {}
                                    <=> /\ streams[s].fn = "dds"
                                        /\ OwnText(s, Zgrid)
                /\ \A n \in Nodes \ {d.node : d \in D} : ~OwnText(s, n)

\* a completed DAS that prints the Grid with its Attributes and leaves out
\* a declared Array whose path does not meet the constraint
C6_Witness ==
    /\ streams[1].fn = "das"
    /\ Done(1)
    /\ OwnText(1, Zgrid)
    /\ OwnText(1, Units)
    /\ \E d \in Decls(Dset, <<>>, TRUE) : d.node = Xarr
    /\ ~OwnText(1, Xarr)

\* node n is part of the tree under the Dataset
RECURSIVE Attached(_)
Attached(n) == n = Dset \/ (parent[n] # None /\ Attached(parent[n]))

\* the data_path of n and of each of its ancestors meets the constraint
RECURSIVE AllMeet(_)
AllMeet(n) ==
    \/ n = Dset
    \/ /\ meets_constraint(constraint, data_path(n, parent))
       /\ AllMeet(parent[n])

\* C6 (as stated): every Structure, Atom, Array, Grid or Sequence node of
\* the tree contributes text to the DDS and to the DAS if and only if its
\* data_path and the data_path of every ancestor meet the constraint.
C6_EveryNodeIffMeets ==
    \A s \in Streams :
        (streams[s].fn \in {"dds", "das"} /\ Done(s)) =>
            \A n \in Nodes :
                (Kind(n) \in Described /\ Attached(n)) =>
                    ((\E j \in 1..Len(streams[s].tags) :
                         /\ streams[s].tags[j].node = n
                         /\ streams[s].out[j] # <<>>)
                     <=> AllMeet(n))

\* the indices of an axis of the given length that a selector takes
AxisTaken(len, sel) == Taken(Range(0, len, 1), sel)

\* the selector names indices of an axis of the given length
InRange(len, sel) ==
    CASE sel.k = "int" -> sel.n < len
      [] sel.k = "slice" -> sel.a < sel.b /\ sel.b <= len
      [] OTHER -> sel.k = "all"

\* C18: for the rank-2 Grid selected by a single projection with k <= 2
\* bracket groups ([n], [a:b] or [:], within the axes), the i-th group
\* selects along axis i of the primary data and of the i-th dimension, the
\* axes after k are whole, and a [:] group leaves its own axis whole: the
\* response completes, the primary payload holds the elements at the taken
\* rows and columns, and each length on the Array line of the DDS is the
\* number of indices taken on that axis, so their product is the number of
\* elements of the primary payload.  (Arrays held in memory.)
C18_GroupSelectsItsAxis ==
    \A s \in Streams :
        LET sels == parse_slice_constraint(constraint)
            shape == data[Zgrid].shape
        IN  (/\ streams[s].fn = "dods"
             /\ streams[s].status \in {"done", "error"}
             /\ ~data[Zgrid].lazy
             /\ Attached(Zgrid)
             /\ AllMeet(Zgrid)
             /\ \A i \in 1..Len(constraint) : constraint[i] # ","
             /\ ~IsParseErr(sels)
             /\ Len(sels) <= Len(shape)
             /\ \A i \in 1..Len(sels) : InRange(shape[i], sels[i]))
            =>
            LET rows == AxisTaken(shape[1], SelectorAt(sels, 1))
                cols == AxisTaken(shape[2], SelectorAt(sels, 2))
                elems == [e \in 1..(Len(rows) * Len(cols)) |->
                            data[Zgrid].flat[
                                rows[((e - 1) \div Len(cols)) + 1] * shape[2]
                                + cols[((e - 1) % Len(cols)) + 1] + 1]]
                taken == <<rows, cols>>
            IN  /\ Done(s)
                /\ PayloadFrom(s, Zgrid, 0, 1)
                      = PackedLength(Len(elems))
                            \o ToBytes(elems, DtypeStr(DtypeOf(Zgrid)))
                /\ \A j \in At(s, Zgrid, "extent") :
                      streams[s].out[j]
                          = Encode(<<"[">>
                                \o Name(Dimensions(Zgrid)[streams[s].tags[j].part])
                                \o <<" ", "=", " ">>
                                \o IntToStr(Len(taken[streams[s].tags[j].part]))
                                \o <<"]">>)

\* the projections of the constraint that select the data path
OwnProjections(path) ==
    LET ps == Split(constraint, ",")
    IN  {i \in 1..Len(ps) : StartsWith(ps[i], path)}

\* C19: in a constraint of several comma-separated projections, the
\* selectors applied to an Array are those of the bracket groups of the
\* projection that selected it: the payload of a top-level Array selected
\* by exactly one projection holds the elements which that projection's
\* groups take, whatever groups stand on the other projections and wherever
\* the projection stands in the list.  (Arrays held in memory.)
C19_SelectorsOfOwnProjection ==
    \A s \in Streams :
        \A n \in {Xarr, Yarr} :
            LET own == OwnProjections(Name(n))
                p == Split(constraint, ",")[CHOOSE i \in own : TRUE]
                sels == parse_slice_constraint(p)
            IN  (/\ streams[s].fn = "dods"
                 /\ streams[s].status \in {"done", "error"}
                 /\ ~data[n].lazy
                 /\ parent[n] = Dset
                 /\ Cardinality(own) = 1
                 /\ ~IsParseErr(sels)
                 /\ Len(sels) = 1
                 /\ InRange(data[n].shape[1], sels[1]))
                =>
                LET took == Taken(data[n].flat, sels[1])
                IN  PayloadFrom(s, n, 0, 1)
                        = PackedLength(Len(took))
                              \o ToBytes(took, DtypeStr(DtypeOf(n)))

\* C15: when the bracket suffix of the constraint cannot be parsed, a DDS,
\* DAS or DODS stream that fails has emitted no chunk before it fails.
C15_ParseErrorBeforeOutput ==
    \A s \in Streams :
        (/\ IsParseErr(parse_slice_constraint(constraint))
         /\ streams[s].status = "error")
            => streams[s].out = <<>>

(***************************************************************************)
(* data_path over the trees that the constructors and append can build     *)
(* (specification SpecPath).                                               *)
(***************************************************************************)
PathNodes == {Dset, Anon, Aatom, Qseq, Inst(1), Val(1)}

\* node p is node o or lies below it
RECURSIVE IsUnder(_, _)
IsUnder(p, o) == p = o \/ (parent[p] # None /\ IsUnder(parent[p], o))

InitPath ==
    /\ Config = DefaultConfig
    /\ children = [n \in PathNodes |-> <<>>]
    /\ parent = [n \in PathNodes |-> None]
    /\ data = [n \in PathNodes |-> NoData]
    /\ constraint = <<>>
    /\ streams = [s \in Streams |-> NoStream]
    /\ call = NoCall
    /\ ret = Pending

\* p.append(o) for an object o that is not in a tree yet; Sequence.append
\* asks o.validates(schema), which only a SequenceInstance has
AppendPath(p, o) ==
    /\ ret = Pending
    /\ o # Dset
    /\ parent[o] = None
    /\ ~IsUnder(p, o)
    /\ Kind(p) = "Sequence" => Kind(o) = "SequenceInstance"
    /\ LET tr == DAPObject_append([children |-> children, parent |-> parent],
                                  p, <<o>>)
       IN  children' = tr.children /\ parent' = tr.parent
    /\ UNCHANGED <<Config, data, constraint, streams, call, ret>>

\* node.data_path of a node of the tree under the Dataset
CallDataPath(n) ==
    /\ Attached(n)
    /\ call' = [fn |-> "data_path", node |-> n]
    /\ ret' = Returned(data_path(n, parent))
    /\ UNCHANGED <<Config, children, parent, data, constraint, streams>>

NextPath ==
    \/ \E p, o \in PathNodes : AppendPath(p, o)
    \/ \E n \in PathNodes : CallDataPath(n)

SpecPath == InitPath /\ [][NextPath]_vars

\* C11: data_path never starts with a dot; it is empty for the Dataset, the
\* name of the node for a child of the Dataset, and the data_path of the
\* parent, a dot and the name for every other node.
C11_DataPathDotted ==
    (ret.done /\ call.fn = "data_path") =>
        /\ ret.value # <<>> => ret.value[1] # "."
        /\ ret.value =
              IF call.node = Dset THEN <<>>
              ELSE IF parent[call.node] = Dset THEN Name(call.node)
              ELSE data_path(parent[call.node], parent) \o <<".">>
                   \o Name(call.node)

(***************************************************************************)
(* The configuration and its setter.  A Python value is the record         *)
(* [type, num]: num is the value of a number and 0 for any other object.   *)
(***************************************************************************)
Number(k) == [type |-> "int", num |-> k]
Other(t) == [type |-> t, num |-> 0]

\* the sizes and the invalid values that are passed to the setter
ChunkSizes ==
    {Number(k) : k \in {1, 2, 3, 10, 123, 1000, DefaultChunkSize}}

InvalidValues ==
    {Number(0), Number(0 - 1), Number(0 - 10), Other("list"), Other("dict"),
     Other("str:cloud"), Other("str:"), Other("NoneType")}

IsNumber(v) == v.type = "int"

\* a call that returns without a value
ReturnsNone == [returned |-> "None"]

\* the exceptions a rejected value gives: TypeError or ValueError
Rejections == {"TypeError", "ValueError"}

set_dask_encoding_chunk_size_unvalidated(cfg, v, e) ==
    [Config |-> [cfg EXCEPT !.DASK_ENCODE_CHUNK_SIZE = v.num],
     result |-> IF IsNumber(v) /\ v.num > 0 THEN ReturnsNone ELSE Raise(e)]

\* the value is validated first and stored only when it is a positive number
set_dask_encoding_chunk_size(cfg, v, e) ==
    IF IsNumber(v) /\ v.num > 0
    THEN [Config |-> [cfg EXCEPT !.DASK_ENCODE_CHUNK_SIZE = v.num],
          result |-> ReturnsNone]
    ELSE [Config |-> cfg, result |-> Raise(e)]

InitConfig ==
    /\ Config = DefaultConfig
    /\ children = [n \in {} |-> <<>>]
    /\ parent = [n \in {} |-> None]
    /\ data = [n \in {} |-> NoData]
    /\ constraint = <<>>
    /\ streams = [s \in Streams |-> NoStream]
    /\ call = NoCall
    /\ ret = Pending

SetDaskEncodingChunkSize ==
    \E v \in ChunkSizes \cup InvalidValues, e \in Rejections :
        \E r \in {set_dask_encoding_chunk_size(Config, v, e)} :
            /\ call' = [fn |-> "set_dask_encoding_chunk_size", value |-> v,
                        before |-> Config]
            /\ Config' = r.Config
            /\ ret' = Returned(r.result)
            /\ UNCHANGED <<children, parent, data, constraint, streams>>

\* reload(opendap_protocol.protocol): the class body runs again
Reload ==
    /\ call' = [fn |-> "reload"]
    /\ Config' = DefaultConfig
    /\ ret' = Returned(ReturnsNone)
    /\ UNCHANGED <<children, parent, data, constraint, streams>>

NextConfig == SetDaskEncodingChunkSize \/ Reload

SpecConfig == InitConfig /\ [][NextConfig]_vars

\* C14: the chunk size is 20e6 until it is set and after a reload; the
\* setter stores a positive number, and for 0, a negative number or a value
\* that is no number it raises TypeError or ValueError and leaves the stored
\* value as it was.
C14_ValidatedSetter ==
    /\ call.fn \in {"none", "reload"} =>
          Config.DASK_ENCODE_CHUNK_SIZE = 20000000
    /\ (ret.done /\ call.fn = "set_dask_encoding_chunk_size") =>
          IF call.value.type = "int" /\ call.value.num > 0
          THEN /\ ret.value = ReturnsNone
               /\ Config.DASK_ENCODE_CHUNK_SIZE = call.value.num
          ELSE /\ IsErr(ret.value)
               /\ ret.value.err \in {"TypeError", "ValueError"}
               /\ Config = call.before

\* a size was stored, and then an invalid value was refused
C14_Witness ==
    /\ call.fn = "set_dask_encoding_chunk_size"
    /\ call.value = Number(0 - 10)
    /\ IsErr(ret.value)
    /\ Config.DASK_ENCODE_CHUNK_SIZE = 123

(***************************************************************************)
(* Two DDS streams served from one tree, pulled in any order, either of    *)
(* which the consumer may drop before it is exhausted (specification       *)
(* SpecShared).  The dimensions of the Grid are top-level Arrays.          *)
(***************************************************************************)
SharedTrees ==
    {DAPObject_append(Parts, Dset, <<Xarr, Yarr, Zgrid>>),
     DAPObject_append(Parts, Dset, <<Zgrid, Xarr, Yarr>>)}

SharedConstraints == {<<>>, <<"z">>}

InitShared ==
    /\ Config = DefaultConfig
    /\ streams = [s \in Streams |-> NoStream]
    /\ call = NoCall
    /\ ret = Pending
    /\ data = TestData(FALSE)
    /\ \E tr \in SharedTrees, c \in SharedConstraints :
          /\ children = tr.children
          /\ parent = tr.parent
          /\ constraint = c

\* the consumer drops generator s at a yield boundary: GeneratorExit is
\* raised at the suspended yield and no frame of s has a handler for it
Close(s) ==
    /\ streams[s].status = "ready"
    /\ streams' = [streams EXCEPT ![s] = [@ EXCEPT !.status = "closed",
                                                   !.stack = <<>>]]
    /\ UNCHANGED <<Config, children, parent, data, constraint, call, ret>>

NextShared ==
    \/ StartDds(1)
    \/ StartDds(2)
    \/ Pull(1)
    \/ Pull(2)
    \/ Close(1)
    \/ Close(2)

SpecShared == InitShared /\ [][NextShared]_vars

\* C16: after a DDS stream over a tree with a Grid is dropped at any yield
\* boundary (no other stream having been created), every node's parent
\* link, and with it its indent and data_path, is what it was before the
\* stream was started.
C16_AbandonLeavesTree ==
    (streams[1].status = "closed" /\ streams[2].status = "none") =>
        /\ parent = streams[1].par0
        /\ \A n \in Nodes :
              Attached(n) =>
                  /\ indent(n, parent) = indent(n, streams[1].par0)
                  /\ data_path(n, parent) = data_path(n, streams[1].par0)

=============================================================================
